---- MODULE Spec2Model ----
(***************************************************************************)
(* Ledger core of the spa member management system.                        *)
(*                                                                         *)
(* The Members table (key card_id) and the Transactions table are the      *)
(* two DynamoDB tables of src/aws_utils.py; the handlers are the form      *)
(* handlers of src/app.py, one script run per browser session.  Every      *)
(* store call of a handler is one atomic step (the store serialises        *)
(* single-item operations); a handler is the sequence of its store calls,  *)
(* so handlers of different sessions interleave between store calls.       *)
(* Money is counted in whole currency units.                               *)
(***************************************************************************)
EXTENDS Integers, FiniteSets, Sequences, TLC

\* ------------------------------------------------------------- bounds
\* add_transaction calls (one uuid4 value each) a run may make; a handler
\* that calls add_transaction starts only while one is left.
\* MaxTxns bounds the runs of SpecLedger, MaxUuids those of Spec.
MaxTxns == 3
MaxUuids == 2
\* transactions the store holds when the history page is checked
MaxStored == 3
\* items in one response of the store's query: the store cuts a response at
\* 1 MB and hands out a LastEvaluatedKey for the rest
PageLimit == 2
\* items of the legacy table, and migrator runs over it
MaxLegacy == 2
MaxRuns == 2

Sessions == {"s1", "s2"}
MemberIds == {"M1", "M2"}
\* the card the whole-service specification works on
OneMember == {"M1"}
\* the sessions that use the delete block of the member management page
Admins == {"s1"}
\* the initial balance input has min_value=0.0: never negative.
InitialBalances == {0, 100}
\* the amount handed to the transaction handler: a debit, nothing, a top-up.
Amounts == {-30, 0, 100}

\* Python's None for an optional value, and a present value.
None == <<>>
Some(x) == <<x>>

\* service_notes of the transaction the add-member handler writes
InitialTopUp == "initial top-up"
NoNotes == ""

VARIABLES
    members,              \* Members table: card_id -> item
    transactions,         \* Transactions table: set of items
    uuids,                \* add_transaction calls left; the next uuid4 value
    pc,                   \* per session: where its handler stands
    op,                   \* per session: the handler's inputs
    current_member,       \* st.session_state.current_member
    delete_confirmation,  \* st.session_state.delete_confirmation
    deleting_member,      \* st.session_state.deleting_member (its card_id)
    outcome,              \* per session: what the last handler reported
    wrote,                \* per session: what the running handler wrote so far:
                          \* bal, the balances it set or added; txn, the
                          \* transaction items it put; failed, a write failed
    created,              \* per card_id: initial balances of the add_member puts
                          \* since the card last had no item
    applied,              \* per card_id: amounts of the transactions reported
                          \* as successful since then
    history,              \* per session: what the history page last showed
    old_table,            \* the legacy Transactions table spa-transactions,
                          \* in the order a scan returns its items
    new_table,            \* spa-transactions-v2 as the migrator creates
                          \* it, keyed (member_id, transaction_id):
                          \* a set of items
    old_items,            \* the migrator's scan result
    migrated_count,       \* the migrator's counters
    errors,
    new_count,            \* the count the migrator's verification printed
    mpc,                  \* where the migrator stands
    uuid4s,               \* uuid4 values the migrator drew so far
    runs,                 \* migrator runs that ended
    tally,                \* per item of the running migration, in scan
                          \* order: how the loop counted it, the owner id
                          \* it worked out and the item it put
    first_keys            \* the keys of new_table when the first run ended

migrator_vars == <<old_table, new_table, old_items, migrated_count, errors,
                   new_count, mpc, uuid4s, runs, tally, first_keys>>

vars == <<members, transactions, uuids, pc, op, current_member,
          delete_confirmation, deleting_member, outcome, wrote, created, applied,
          history, migrator_vars>>

session_vars == <<current_member, delete_confirmation, deleting_member>>

\* ------------------------------------------------------------- helpers
RECURSIVE SumSeq(_)
SumSeq(s) == IF s = <<>> THEN 0 ELSE Head(s) + SumSeq(Tail(s))

RECURSIVE SumAmounts(_)
SumAmounts(ts) ==
    IF ts = {} THEN 0
    ELSE LET t == CHOOSE x \in ts : TRUE
         IN  t.amount + SumAmounts(ts \ {t})

\* ------------------------------------------------------------- the store
\* a lookup that never finds the item
get_member_miss(table, card_id) == None

\* table.get_item(Key={'card_id': card_id}).get('Item', None)
get_member(table, card_id) ==
    IF card_id \in DOMAIN table THEN Some(table[card_id]) ELSE None

\* a put that keeps the item the card already has
add_member_if_absent(table, card_id, balance) ==
    [k \in DOMAIN table \cup {card_id} |->
        IF k \in DOMAIN table
        THEN table[k]
        ELSE [card_id |-> card_id, balance |-> balance]]

\* a put that drops the initial balance
add_member_zero(table, card_id, balance) ==
    [k \in DOMAIN table \cup {card_id} |->
        IF k = card_id
        THEN [card_id |-> card_id, balance |-> 0]
        ELSE table[k]]

\* table.put_item(Item={card_id, name, top_up_date, balance, created_at}): an
\* upsert that replaces the whole item (the fields the ledger handlers never
\* read are left out)
add_member(table, card_id, balance) ==
    [k \in DOMAIN table \cup {card_id} |->
        IF k = card_id
        THEN [card_id |-> card_id, balance |-> balance]
        ELSE table[k]]

\* table.delete_item(Key={'card_id': card_id})
delete_member(table, card_id) ==
    [k \in DOMAIN table \ {card_id} |-> table[k]]

\* update_item(SET balance = balance + :val): the store adds atomically.  The
\* update is rejected (ClientError) when the item has no balance attribute,
\* which is the case of a card_id without an item.
CanUpdateBalance(table, card_id) == card_id \in DOMAIN table

\* a local read-increment-write on the session's copy of the item
update_member_balance_rmw(table, card_id, amount, s) ==
    [table EXCEPT ![card_id].balance = current_member[s][1].balance + amount]

\* s, the calling session, is not used: the addition happens in the store
update_member_balance(table, card_id, amount, s) ==
    [table EXCEPT ![card_id].balance = @ + amount]

\* an item that loses the sign of a debit
TransactionItem_abs(transaction_id, member_id, amount, signature_key, service_notes) ==
    [transaction_id |-> transaction_id,
     member_id |-> member_id,
     amount |-> IF amount < 0 THEN -amount ELSE amount,
     signature_s3_key |-> signature_key,
     service_notes |-> service_notes]

\* the Item of add_transaction's put_item (its timestamp, which no handler
\* reads, is left out)
TransactionItem(transaction_id, member_id, amount, signature_key, service_notes) ==
    [transaction_id |-> transaction_id,
     member_id |-> member_id,
     amount |-> amount,
     signature_s3_key |-> signature_key,
     service_notes |-> service_notes]

\* a put under one and the same transaction_id, which replaces the item
\* stored under it
add_transaction_same_id(table, transaction_id, member_id, amount, signature_key, service_notes) ==
    {x \in table : x.transaction_id # 1}
        \cup {TransactionItem(1, member_id, amount, signature_key, service_notes)}

\* table.put_item(Item=...) under a fresh uuid4 transaction_id
add_transaction(table, transaction_id, member_id, amount, signature_key, service_notes) ==
    table \cup {TransactionItem(transaction_id, member_id, amount, signature_key,
                                service_notes)}

\* table.query(IndexName='member_id-index', member_id = :member_id)
get_member_transactions(table, member_id) ==
    {t \in table : t.member_id = member_id}

\* upload_signature: the blob key signatures/<member_id>/<uuid>.png
SignatureKey(member_id) == Some(<<"signatures", member_id>>)

\* ------------------------------------------------------------- bookkeeping
NoOp == [kind |-> "none", card_id |-> "", amount |-> 0, signed |-> FALSE, existed |-> FALSE]
NoWrites == [bal |-> <<>>, txn |-> <<>>, failed |-> FALSE]

\* handlers that may still put a transaction
InFlight == Cardinality({s \in Sessions : pc[s] \in {"cm_put", "cm_txn", "tx_put"}})
MayStartWrite == InFlight < uuids

\* the amounts a card's handlers reported, kept in ascending order
RECURSIVE Insert(_, _)
Insert(seq, x) ==
    IF seq = <<>> THEN <<x>>
    ELSE IF x <= Head(seq) THEN <<x>> \o seq
    ELSE <<Head(seq)>> \o Insert(Tail(seq), x)

Idle(s) == pc[s] = "idle"
Finished(s) == pc[s] \in {"idle", "done"}
Quiescent == \A s \in Sessions : Finished(s)

\* no migrator run has started; the new table does not hold an item yet
MigratorIdle(legacy) ==
    /\ old_table = legacy
    /\ new_table = {}
    /\ old_items = <<>>
    /\ migrated_count = 0
    /\ errors = 0
    /\ new_count = None
    /\ mpc = "idle"
    /\ uuid4s = 0
    /\ runs = 0
    /\ tally = <<>>
    /\ first_keys = None

InitApp(member_items, transaction_items, n) ==
    /\ members = member_items
    /\ transactions = transaction_items
    /\ uuids = n
    /\ pc = [s \in Sessions |-> "idle"]
    /\ op = [s \in Sessions |-> NoOp]
    /\ current_member = [s \in Sessions |-> None]
    /\ delete_confirmation = [s \in Sessions |-> FALSE]
    /\ deleting_member = [s \in Sessions |-> ""]
    /\ outcome = [s \in Sessions |-> "none"]
    /\ wrote = [s \in Sessions |-> NoWrites]
    /\ created = [m \in MemberIds |-> <<>>]
    /\ applied = [m \in MemberIds |-> <<>>]
    /\ history = [s \in Sessions |-> None]

\* both tables empty, as create_members_table and create_transactions_table
\* leave them
InitWith(n) == InitApp(<<>>, {}, n) /\ MigratorIdle(<<>>)

Init == InitWith(MaxUuids)
InitLedger == InitWith(MaxTxns)

\* ------------------------------------------------------------- dashboard
\* search_members + the select button: the session keeps a copy of the item.
SelectMember(s, m) ==
    /\ Idle(s)
    /\ m \in DOMAIN members
    /\ current_member' = [current_member EXCEPT ![s] = Some(members[m])]
    /\ UNCHANGED <<history, migrator_vars>>
    /\ UNCHANGED <<members, transactions, uuids, pc, op,
                   delete_confirmation, deleting_member, outcome, wrote,
                   created, applied>>

\* ------------------------------------------------------------- add member
\* The handler's first store call, get_member.  The handler treats a result
\* of None as "no such member".
StartAddMember(s, card_id, initial_balance, found) ==
    /\ op' = [op EXCEPT ![s] = [kind |-> "create", card_id |-> card_id,
                                 amount |-> initial_balance, signed |-> FALSE,
                                 existed |-> card_id \in DOMAIN members]]
    /\ wrote' = [wrote EXCEPT ![s] = NoWrites]
    /\ IF found # None
       THEN /\ outcome' = [outcome EXCEPT ![s] = "DuplicateMember"]
            /\ pc' = [pc EXCEPT ![s] = "done"]
       ELSE /\ MayStartWrite
            /\ outcome' = [outcome EXCEPT ![s] = "none"]
            /\ pc' = [pc EXCEPT ![s] = "cm_put"]
    /\ UNCHANGED <<history, migrator_vars>>
    /\ UNCHANGED <<members, transactions, uuids, created, applied,
                   session_vars>>

SubmitAddMember(s, card_id, initial_balance) ==
    /\ Idle(s)
    /\ StartAddMember(s, card_id, initial_balance, get_member(members, card_id))

\* get_member catches the ClientError and returns None.
SubmitAddMemberGetFails(s, card_id, initial_balance) ==
    /\ Idle(s)
    /\ StartAddMember(s, card_id, initial_balance, None)

\* add_member's put succeeds: st.success is shown at once.
AddMemberPut(s) ==
    /\ pc[s] = "cm_put"
    /\ members' = add_member(members, op[s].card_id, op[s].amount)
    /\ outcome' = [outcome EXCEPT ![s] = "success"]
    /\ wrote' = [wrote EXCEPT ![s].bal = Append(@, op[s].amount)]
    /\ created' = [created EXCEPT ![op[s].card_id] = Insert(@, op[s].amount)]
    /\ pc' = [pc EXCEPT ![s] = "cm_txn"]
    /\ UNCHANGED <<history, migrator_vars>>
    /\ UNCHANGED <<transactions, uuids, op, applied, session_vars>>

\* add_member's put fails: it returns False.
AddMemberPutFails(s) ==
    /\ pc[s] = "cm_put"
    /\ outcome' = [outcome EXCEPT ![s] = "AddMemberFailed"]
    /\ wrote' = [wrote EXCEPT ![s].failed = TRUE]
    /\ pc' = [pc EXCEPT ![s] = "done"]
    /\ UNCHANGED <<history, migrator_vars>>
    /\ UNCHANGED <<members, transactions, uuids, op, created, applied,
                   session_vars>>

\* the initial top-up record: add_transaction(card_id, initial_balance,
\* service_notes=...), written whatever initial_balance is; its result is dropped.
InitialTopUpPut(s) ==
    /\ pc[s] = "cm_txn"
    /\ transactions' = add_transaction(transactions, uuids, op[s].card_id,
                                       op[s].amount, None, InitialTopUp)
    /\ uuids' = uuids - 1
    /\ wrote' = [wrote EXCEPT ![s].txn = Append(@,
            TransactionItem(uuids, op[s].card_id, op[s].amount, None, InitialTopUp))]
    /\ pc' = [pc EXCEPT ![s] = "done"]
    /\ UNCHANGED <<history, migrator_vars>>
    /\ UNCHANGED <<members, op, outcome, created, applied, session_vars>>

InitialTopUpPutFails(s) ==
    /\ pc[s] = "cm_txn"
    /\ uuids' = uuids - 1
    /\ wrote' = [wrote EXCEPT ![s].failed = TRUE]
    /\ pc' = [pc EXCEPT ![s] = "done"]
    /\ UNCHANGED <<history, migrator_vars>>
    /\ UNCHANGED <<members, transactions, op, outcome, created,
                   applied, session_vars>>

\* ------------------------------------------------------------- transactions
\* a handler without the zero check
IsZeroAmount_never(amount) == FALSE

\* app.py: if amount == 0: st.error(...)
IsZeroAmount(amount) == amount = 0

\* The transaction form of the selected member is submitted.  A debit
\* carries the signature drawn on the canvas, uploaded before the writes.
SubmitTransaction(s, amount) ==
    /\ Idle(s)
    /\ current_member[s] # None
    /\ op' = [op EXCEPT ![s] = [kind |-> "apply",
                                 card_id |-> current_member[s][1].card_id,
                                 amount |-> amount, signed |-> amount < 0,
                                 existed |-> current_member[s][1].card_id \in DOMAIN members]]
    /\ wrote' = [wrote EXCEPT ![s] = NoWrites]
    /\ IF IsZeroAmount(amount)
       THEN /\ outcome' = [outcome EXCEPT ![s] = "ZeroAmount"]
            /\ pc' = [pc EXCEPT ![s] = "done"]
       ELSE /\ MayStartWrite
            /\ outcome' = [outcome EXCEPT ![s] = "none"]
            /\ pc' = [pc EXCEPT ![s] = "tx_put"]
    /\ UNCHANGED <<history, migrator_vars>>
    /\ UNCHANGED <<members, transactions, uuids, created, applied,
                   session_vars>>

\* signature_key of the handler: the uploaded blob's key, or None
Signature(s) == IF op[s].signed THEN SignatureKey(op[s].card_id) ELSE None

\* add_transaction's put succeeds and returns the new transaction_id.
AddTransactionPut(s) ==
    /\ pc[s] = "tx_put"
    /\ transactions' = add_transaction(transactions, uuids, op[s].card_id,
                                       op[s].amount, Signature(s), NoNotes)
    /\ uuids' = uuids - 1
    /\ wrote' = [wrote EXCEPT ![s].txn = Append(@,
            TransactionItem(uuids, op[s].card_id, op[s].amount, Signature(s), NoNotes))]
    /\ pc' = [pc EXCEPT ![s] = "tx_bal"]
    /\ UNCHANGED <<history, migrator_vars>>
    /\ UNCHANGED <<members, op, outcome, created, applied, session_vars>>

\* add_transaction returns None: the handler reports it and stops.
AddTransactionPutFails(s) ==
    /\ pc[s] = "tx_put"
    /\ uuids' = uuids - 1
    /\ outcome' = [outcome EXCEPT ![s] = "TransactionFailed"]
    /\ wrote' = [wrote EXCEPT ![s].failed = TRUE]
    /\ pc' = [pc EXCEPT ![s] = "done"]
    /\ UNCHANGED <<history, migrator_vars>>
    /\ UNCHANGED <<members, transactions, op, created, applied,
                   session_vars>>

\* update_member_balance returns the new balance; the session's copy follows.
UpdateBalance(s) ==
    /\ pc[s] = "tx_bal"
    /\ CanUpdateBalance(members, op[s].card_id)
    /\ members' = update_member_balance(members, op[s].card_id, op[s].amount, s)
    /\ current_member' = [current_member EXCEPT ![s] =
            Some([@[1] EXCEPT !.balance = members'[op[s].card_id].balance])]
    /\ outcome' = [outcome EXCEPT ![s] = "success"]
    /\ wrote' = [wrote EXCEPT ![s].bal = Append(@, op[s].amount)]
    /\ applied' = [applied EXCEPT ![op[s].card_id] = Insert(@, op[s].amount)]
    /\ pc' = [pc EXCEPT ![s] = "done"]
    /\ UNCHANGED <<history, migrator_vars>>
    /\ UNCHANGED <<transactions, uuids, op, created,
                   delete_confirmation, deleting_member>>

BalanceFailed(s) ==
    /\ outcome' = [outcome EXCEPT ![s] = "BalanceFailed"]
    /\ wrote' = [wrote EXCEPT ![s].failed = TRUE]
    /\ pc' = [pc EXCEPT ![s] = "done"]
    /\ UNCHANGED <<history, migrator_vars>>
    /\ UNCHANGED <<members, transactions, uuids, op, created, applied,
                   session_vars>>

\* the store rejects the update: the card has no item to add to.
UpdateBalanceRejected(s) ==
    /\ pc[s] = "tx_bal"
    /\ ~CanUpdateBalance(members, op[s].card_id)
    /\ BalanceFailed(s)

\* the store call fails: update_member_balance returns None.
UpdateBalanceFails(s) ==
    /\ pc[s] = "tx_bal"
    /\ CanUpdateBalance(members, op[s].card_id)
    /\ BalanceFailed(s)

\* ------------------------------------------------------------- delete member
\* "delete this member" on a member of the search result
RequestDelete(s, m) ==
    /\ Idle(s)
    /\ m \in DOMAIN members
    /\ delete_confirmation' = [delete_confirmation EXCEPT ![s] = TRUE]
    /\ deleting_member' = [deleting_member EXCEPT ![s] = m]
    /\ UNCHANGED <<history, migrator_vars>>
    /\ UNCHANGED <<members, transactions, uuids, pc, op, current_member,
                   outcome, wrote, created, applied>>

\* a confirm button that is drawn whatever the flag is
ConfirmationShown_always(s) == deleting_member[s] \in DOMAIN members

\* the confirmation block is drawn for the selected member of the search
\* result when the flag is set and deleting_member is that member
ConfirmationShown(s) ==
    /\ delete_confirmation[s]
    /\ deleting_member[s] \in DOMAIN members

CancelDelete(s) ==
    /\ Idle(s)
    /\ ConfirmationShown(s)
    /\ delete_confirmation' = [delete_confirmation EXCEPT ![s] = FALSE]
    /\ UNCHANGED <<history, migrator_vars>>
    /\ UNCHANGED <<members, transactions, uuids, pc, op, current_member,
                   deleting_member, outcome, wrote, created, applied>>

\* "confirm delete": delete_member succeeds, the flag is cleared
ConfirmDelete(s) ==
    /\ Idle(s)
    /\ ConfirmationShown(s)
    /\ op' = [op EXCEPT ![s] = [kind |-> "delete", card_id |-> deleting_member[s],
                                 amount |-> 0, signed |-> FALSE, existed |-> TRUE]]
    /\ wrote' = [wrote EXCEPT ![s] = NoWrites]
    /\ members' = delete_member(members, deleting_member[s])
    /\ delete_confirmation' = [delete_confirmation EXCEPT ![s] = FALSE]
    /\ outcome' = [outcome EXCEPT ![s] = "deleted"]
    /\ pc' = [pc EXCEPT ![s] = "del_query"]
    /\ created' = [created EXCEPT ![deleting_member[s]] = <<>>]
    /\ applied' = [applied EXCEPT ![deleting_member[s]] = <<>>]
    /\ UNCHANGED <<history, migrator_vars>>
    /\ UNCHANGED <<transactions, uuids, current_member, deleting_member>>

ConfirmDeleteFails(s) ==
    /\ Idle(s)
    /\ ConfirmationShown(s)
    /\ op' = [op EXCEPT ![s] = [kind |-> "delete", card_id |-> deleting_member[s],
                                 amount |-> 0, signed |-> FALSE, existed |-> TRUE]]
    /\ wrote' = [wrote EXCEPT ![s] = [NoWrites EXCEPT !.failed = TRUE]]
    /\ outcome' = [outcome EXCEPT ![s] = "DeleteFailed"]
    /\ pc' = [pc EXCEPT ![s] = "done"]
    /\ UNCHANGED <<history, migrator_vars>>
    /\ UNCHANGED <<members, transactions, uuids, created, applied,
                   session_vars>>

\* The cascade over the query result: the loop body calls
\* aws_client.delete_transaction, which AWSClient does not define, so the
\* first iteration raises AttributeError and the handler ends there.
Cascade(s, found) ==
    /\ pc[s] = "del_query"
    /\ outcome' = [outcome EXCEPT ![s] =
            IF found = {} THEN "deleted" ELSE "AttributeError"]
    /\ pc' = [pc EXCEPT ![s] = "done"]
    /\ UNCHANGED <<history, migrator_vars>>
    /\ UNCHANGED <<members, transactions, uuids, op, wrote, created,
                   applied, session_vars>>

DeleteCascade(s) == Cascade(s, get_member_transactions(transactions, op[s].card_id))

\* get_member_transactions catches the ClientError and returns [].
DeleteCascadeQueryFails(s) == Cascade(s, {})

\* ------------------------------------------------------------- history page
\* The first response of table.query when the result does not fit one
\* response: PageLimit of the matching items, and a LastEvaluatedKey.
FirstPages(table, member_id) ==
    {page \in SUBSET get_member_transactions(table, member_id) :
        /\ Cardinality(page) = PageLimit
        /\ page # get_member_transactions(table, member_id)}

\* The history page of the selected member: get_member_transactions makes
\* one query call and returns response.get('Items', []); the page shows it.
ShowHistory(s, items) ==
    /\ Idle(s)
    /\ current_member[s] # None
    /\ history' = [history EXCEPT ![s] =
            Some([member_id |-> current_member[s][1].card_id,
                  items |-> items,
                  stored |-> get_member_transactions(transactions,
                                 current_member[s][1].card_id)])]
    /\ UNCHANGED migrator_vars
    /\ UNCHANGED <<members, transactions, uuids, pc, op, current_member,
                   delete_confirmation, deleting_member, outcome, wrote,
                   created, applied>>

\* the whole result fits the response
ViewHistory(s) ==
    /\ current_member[s] # None
    /\ Cardinality(get_member_transactions(transactions,
                       current_member[s][1].card_id)) <= PageLimit
    /\ ShowHistory(s, get_member_transactions(transactions,
                          current_member[s][1].card_id))

\* the response is a first page: its LastEvaluatedKey is not read
ViewHistoryPaged(s) ==
    /\ current_member[s] # None
    /\ \E page \in FirstPages(transactions, current_member[s][1].card_id) :
            ShowHistory(s, page)

\* the query raises ClientError: get_member_transactions returns []
ViewHistoryQueryFails(s) ==
    /\ Idle(s)
    /\ ShowHistory(s, {})

\* ------------------------------------------------------------- migrator: values
\* The strings the migrator takes apart are sequences of characters.  An
\* optional field of a legacy item is None (absent or null: item.get gives
\* None for both) or Some(value).
Signatures == <<"s", "i", "g", "n", "a", "t", "u", "r", "e", "s", "/">>
Unknown == <<"u", "n", "k", "n", "o", "w", "n", "_">>
NoneStr == <<"N", "o", "n", "e">>
DigitChars == <<"0", "1", "2", "3", "4", "5", "6", "7", "8", "9">>

\* Python's truth value of an optional string: neither None nor ''
Truthy(x) == x # None /\ x[1] # <<>>

\* sub in str
Contains(str, sub) ==
    \E k \in 0..(Len(str) - Len(sub)) : SubSeq(str, k + 1, k + Len(sub)) = sub

\* str.split(sep)
RECURSIVE split(_, _)
split(str, sep) ==
    IF \A k \in 1..Len(str) : str[k] # sep THEN <<str>>
    ELSE LET k == CHOOSE j \in 1..Len(str) :
                      str[j] = sep /\ \A h \in 1..(j - 1) : str[h] # sep
         IN  <<SubSeq(str, 1, k - 1)>> \o split(SubSeq(str, k + 1, Len(str)), sep)

\* str(n) of a natural number
RECURSIVE str_int(_)
str_int(n) ==
    IF n < 10 THEN <<DigitChars[n + 1]>>
    ELSE str_int(n \div 10) \o <<DigitChars[(n % 10) + 1]>>

\* str(uuid.uuid4()): the n-th value drawn differs from every other one and
\* from every id of a legacy item
uuid4(n) == <<"#">> \o str_int(n)

\* A Decimal is its sign, the digits of its coefficient and its exponent
\* (as_tuple); the amounts of the ledger have exponent 0 or below.
Dec(sign, digits, exp) == [sign |-> sign, digits |-> digits, exp |-> exp]

\* str(d) for an exponent of 0 or below: plain notation
str_decimal(d) ==
    LET n == Len(d.digits)
        point == n + d.exp
        lead == IF point > 0 THEN SubSeq(d.digits, 1, point) ELSE <<"0">>
        frac == IF point >= 0 THEN SubSeq(d.digits, point + 1, n)
                ELSE [k \in 1..(-point) |-> "0"] \o d.digits
    IN  (IF d.sign = 1 THEN <<"-">> ELSE <<>>) \o lead
            \o (IF d.exp < 0 THEN <<".">> \o frac ELSE <<>>)

RECURSIVE StripZeros(_)
StripZeros(ds) ==
    IF Len(ds) > 1 /\ Head(ds) = "0" THEN StripZeros(Tail(ds)) ELSE ds

\* Decimal(text) of a text in plain notation
Decimal(text) ==
    LET neg == text # <<>> /\ text[1] = "-"
        parts == split(IF neg THEN Tail(text) ELSE text, ".")
        frac == IF Len(parts) = 2 THEN parts[2] ELSE <<>>
    IN  Dec(IF neg THEN 1 ELSE 0, StripZeros(parts[1] \o frac), -Len(frac))

\* ------------------------------------------------------------- migrator: one item
\* if signature_s3_key and 'signatures/' in signature_s3_key
DerivesFromSignature(item) ==
    /\ Truthy(item.signature_s3_key)
    /\ Contains(item.signature_s3_key[1], Signatures)

\* transaction_id[:8] with transaction_id None: TypeError, caught by the
\* loop's except
OwnerRaises(item) ==
    /\ item.member_id = None
    /\ ~DerivesFromSignature(item)
    /\ item.transaction_id = None

\* str(member_id) after the block "if member_id is None"
NewMemberId(item) ==
    IF item.member_id # None THEN item.member_id[1]
    ELSE IF DerivesFromSignature(item)
    THEN LET parts == split(item.signature_s3_key[1], "/")
         IN  IF Len(parts) >= 2 THEN parts[2] ELSE NoneStr
    ELSE LET transaction_id == item.transaction_id[1]
         IN  Unknown \o SubSeq(transaction_id, 1,
                               IF Len(transaction_id) < 8
                               THEN Len(transaction_id) ELSE 8)

\* if not transaction_id: transaction_id = str(uuid.uuid4())
DrawsUuid(item) == ~Truthy(item.transaction_id)
NewTransactionId(item, n) ==
    IF DrawsUuid(item) THEN uuid4(n) ELSE item.transaction_id[1]

\* Decimal(str(amount)) if amount is not None else Decimal('0')
NewAmount(item) ==
    IF item.amount # None THEN Decimal(str_decimal(item.amount[1]))
    ELSE Decimal(<<"0">>)

\* new_item without its None values (timestamp and service_notes, which
\* the migrator copies and nothing reads, are left out); n is the number of
\* the uuid4 value the item would get
NewItem(item, n) ==
    [member_id |-> NewMemberId(item),
     transaction_id |-> NewTransactionId(item, n),
     amount |-> NewAmount(item),
     signature_s3_key |-> item.signature_s3_key]

\* ------------------------------------------------------------- migrator: the run
app_vars == <<transactions, uuids, pc, op, current_member, delete_confirmation,
              deleting_member, outcome, wrote, created, applied, history>>

\* the key of an item of the new table: member_id HASH, transaction_id RANGE
KeyOf(t) == <<t.member_id, t.transaction_id>>

\* a store that takes every key
AcceptsKey_any(t) == TRUE

\* put_item is rejected (ValidationException) when a key attribute of type S
\* is the empty string
AcceptsKey(t) == t.member_id # <<>> /\ t.transaction_id # <<>>

\* new_table.put_item(Item=new_item): an upsert under the item's key
put_item(table, t) == {x \in table : KeyOf(x) # KeyOf(t)} \cup {t}

\* a put that goes to the legacy table
WriteNewItem_legacy(t) ==
    /\ old_table' = Append(old_table, t)
    /\ UNCHANGED <<new_table, members>>

\* the only write of the loop goes to new_table
WriteNewItem(t) ==
    /\ new_table' = put_item(new_table, t)
    /\ UNCHANGED <<old_table, members>>

\* old_table.scan() and the counters set to 0; create_new_table finds the
\* table or creates it empty
Scan(max_runs) ==
    /\ mpc \in {"idle", "done"}
    /\ runs < max_runs
    /\ old_items' = old_table
    /\ migrated_count' = 0
    /\ errors' = 0
    /\ new_count' = None
    /\ tally' = <<>>
    /\ mpc' = "loop"
    /\ UNCHANGED <<old_table, new_table, members, uuid4s, runs, first_keys>>
    /\ UNCHANGED app_vars

\* the scan raises: the error is printed and the script returns
ScanFails(max_runs) ==
    /\ mpc \in {"idle", "done"}
    /\ runs < max_runs
    /\ old_items' = <<>>
    /\ migrated_count' = 0
    /\ errors' = 0
    /\ new_count' = None
    /\ tally' = <<>>
    /\ mpc' = "idle"
    /\ runs' = runs + 1
    /\ UNCHANGED <<old_table, new_table, members, uuid4s, first_keys>>
    /\ UNCHANGED app_vars

InLoop == mpc = "loop" /\ Len(tally) < Len(old_items)
Item == old_items[Len(tally) + 1]
Counted(how, owner, written) == [counted |-> how, owner |-> owner, item |-> written]

\* an iteration that drops its error without counting it
ItemError_uncounted(owner) ==
    /\ tally' = Append(tally, Counted("errors", owner, None))
    /\ UNCHANGED <<old_table, new_table, members, old_items, migrated_count,
                   errors, new_count, mpc, runs, first_keys>>
    /\ UNCHANGED app_vars

\* except Exception: errors += 1, and the loop goes on with the next item
ItemError(owner) ==
    /\ errors' = errors + 1
    /\ tally' = Append(tally, Counted("errors", owner, None))
    /\ UNCHANGED <<old_table, new_table, members, old_items, migrated_count,
                   new_count, mpc, runs, first_keys>>
    /\ UNCHANGED app_vars

\* the iteration raises before it reaches the put
MigrateItemRaises ==
    /\ InLoop
    /\ OwnerRaises(Item)
    /\ ItemError(None)
    /\ UNCHANGED uuid4s

\* the iteration puts its item: migrated_count += 1
MigrateItem ==
    /\ InLoop
    /\ ~OwnerRaises(Item)
    /\ AcceptsKey(NewItem(Item, uuid4s + 1))
    /\ WriteNewItem(NewItem(Item, uuid4s + 1))
    /\ uuid4s' = IF DrawsUuid(Item) THEN uuid4s + 1 ELSE uuid4s
    /\ migrated_count' = migrated_count + 1
    /\ tally' = Append(tally, Counted("migrated", Some(NewMemberId(Item)),
                                     Some(NewItem(Item, uuid4s + 1))))
    /\ UNCHANGED <<old_items, errors, new_count, mpc, runs, first_keys>>
    /\ UNCHANGED app_vars

\* the store rejects the item's key
MigrateItemRejected ==
    /\ InLoop
    /\ ~OwnerRaises(Item)
    /\ ~AcceptsKey(NewItem(Item, uuid4s + 1))
    /\ ItemError(Some(NewMemberId(Item)))
    /\ uuid4s' = IF DrawsUuid(Item) THEN uuid4s + 1 ELSE uuid4s

\* the put fails in the store (ClientError)
MigrateItemPutFails ==
    /\ InLoop
    /\ ~OwnerRaises(Item)
    /\ ItemError(Some(NewMemberId(Item)))
    /\ uuid4s' = IF DrawsUuid(Item) THEN uuid4s + 1 ELSE uuid4s

\* The loop is over: the tally of migrated_count, errors and len(old_items)
\* is printed, and the run ends with what the verification printed.
LoopDone == mpc = "loop" /\ Len(tally) = Len(old_items)
EndRun(count) ==
    /\ new_count' = count
    /\ mpc' = "done"
    /\ runs' = runs + 1
    /\ first_keys' = IF first_keys = None
                     THEN Some({KeyOf(t) : t \in new_table}) ELSE first_keys
    /\ UNCHANGED <<old_table, new_table, members, old_items, migrated_count,
                   errors, uuid4s, tally>>
    /\ UNCHANGED app_vars

\* new_table.scan(Select='COUNT'): the count is printed
Verify ==
    /\ LoopDone
    /\ migrated_count > 0
    /\ EndRun(Some(Cardinality(new_table)))

\* the count scan raises: "Verification failed" is printed
VerifyFails ==
    /\ LoopDone
    /\ migrated_count > 0
    /\ EndRun(None)

\* if migrated_count > 0 is false: no verification
NoVerification ==
    /\ LoopDone
    /\ migrated_count = 0
    /\ EndRun(None)

\* ------------------------------------------------------------- history of a migrated table
\* The app opens spa-transactions-v2 with create_transactions_table, which
\* returns the table that exists (ResourceInUseException): after a
\* migration that is the table create_new_table made, with the key
\* (member_id, transaction_id) and no index.
NewTableIndexes == {}

\* table.query(IndexName='member_id-index', ...) inside
\* get_member_transactions: the store raises a ClientError for an index the
\* table does not have, and get_member_transactions returns [].
query_new_table(table, member_id) ==
    IF "member_id-index" \in NewTableIndexes
    THEN {t \in table : t.member_id = member_id}
    ELSE {}

\* the history page of the selected member once the migration has run
ViewMigratedHistory(s) ==
    /\ Idle(s)
    /\ mpc = "done"
    /\ current_member[s] # None
    /\ history' = [history EXCEPT ![s] =
            Some([member_id |-> current_member[s][1].card_id,
                  items |-> query_new_table(new_table, current_member[s][1].card_id),
                  stored |-> {t \in new_table :
                                 t.member_id = current_member[s][1].card_id}])]
    /\ UNCHANGED migrator_vars
    /\ UNCHANGED <<members, transactions, uuids, pc, op, current_member,
                   delete_confirmation, deleting_member, outcome, wrote,
                   created, applied>>

\* ------------------------------------------------------------- edit member
\* update_item(SET #n = :name, top_up_date = :date, balance = :balance): the
\* balance is set to the value passed; an absent item is created.
update_member(table, card_id, balance) ==
    [k \in DOMAIN table \cup {card_id} |->
        IF k = card_id
        THEN [card_id |-> card_id, balance |-> balance]
        ELSE table[k]]

\* The script run of "save changes": search_members reads the member again
\* and the form's balance field, left as it was, holds the balance just read.
SubmitEdit(s, m) ==
    /\ Idle(s)
    /\ m \in DOMAIN members
    /\ op' = [op EXCEPT ![s] = [kind |-> "edit", card_id |-> m,
                                 amount |-> members[m].balance, signed |-> FALSE,
                                 existed |-> TRUE]]
    /\ wrote' = [wrote EXCEPT ![s] = NoWrites]
    /\ outcome' = [outcome EXCEPT ![s] = "none"]
    /\ pc' = [pc EXCEPT ![s] = "ed_upd"]
    /\ UNCHANGED <<history, migrator_vars>>
    /\ UNCHANGED <<members, transactions, uuids, created, applied,
                   session_vars>>

\* update_member returns True: the stored balance is the form's.
UpdateMember(s) ==
    /\ pc[s] = "ed_upd"
    /\ members' = update_member(members, op[s].card_id, op[s].amount)
    /\ outcome' = [outcome EXCEPT ![s] = "success"]
    /\ pc' = [pc EXCEPT ![s] = "done"]
    /\ UNCHANGED <<history, migrator_vars>>
    /\ UNCHANGED <<transactions, uuids, op, wrote, created, applied,
                   session_vars>>

\* update_member returns False: nothing is stored.
UpdateMemberFails(s) ==
    /\ pc[s] = "ed_upd"
    /\ outcome' = [outcome EXCEPT ![s] = "UpdateFailed"]
    /\ pc' = [pc EXCEPT ![s] = "done"]
    /\ UNCHANGED <<history, migrator_vars>>
    /\ UNCHANGED <<members, transactions, uuids, op, wrote, created, applied,
                   session_vars>>

\* ------------------------------------------------------------- script end
\* The script run of the handler ends; its locals and messages go with the
\* next run.
Return(s) ==
    /\ pc[s] = "done"
    /\ pc' = [pc EXCEPT ![s] = "idle"]
    /\ op' = [op EXCEPT ![s] = NoOp]
    /\ wrote' = [wrote EXCEPT ![s] = NoWrites]
    /\ outcome' = [outcome EXCEPT ![s] = "none"]
    /\ UNCHANGED <<history, migrator_vars>>
    /\ UNCHANGED <<members, transactions, uuids, created, applied, session_vars>>

\* ------------------------------------------------------------- specifications
\* the steps in which every store call succeeds
Reliable(ids) ==
    \/ \E s \in Sessions, m \in ids : SelectMember(s, m)
    \/ \E s \in Sessions, m \in ids, b \in InitialBalances : SubmitAddMember(s, m, b)
    \/ \E s \in Sessions : AddMemberPut(s)
    \/ \E s \in Sessions : InitialTopUpPut(s)
    \/ \E s \in Sessions, a \in Amounts : SubmitTransaction(s, a)
    \/ \E s \in Sessions : AddTransactionPut(s)
    \/ \E s \in Sessions : UpdateBalance(s)
    \/ \E s \in Sessions : Return(s)

Deleting ==
    \/ \E s \in Admins, m \in OneMember : RequestDelete(s, m)
    \/ \E s \in Admins : CancelDelete(s)
    \/ \E s \in Admins : ConfirmDelete(s)
    \/ \E s \in Admins : DeleteCascade(s)
    \/ \E s \in Sessions : UpdateBalanceRejected(s)

Failing ==
    \/ \E s \in Sessions, m \in OneMember, b \in InitialBalances : SubmitAddMemberGetFails(s, m, b)
    \/ \E s \in Sessions : AddMemberPutFails(s)
    \/ \E s \in Sessions : InitialTopUpPutFails(s)
    \/ \E s \in Sessions : AddTransactionPutFails(s)
    \/ \E s \in Sessions : UpdateBalanceFails(s)
    \/ \E s \in Admins : ConfirmDeleteFails(s)
    \/ \E s \in Admins : DeleteCascadeQueryFails(s)

Next == Reliable(OneMember) \/ Deleting \/ Failing

\* the whole service: every handler, any store call may fail
Spec == Init /\ [][Next]_vars

\* create_member and apply_transaction of concurrent sessions, no store call fails
SpecLedger == InitLedger /\ [][Reliable(MemberIds)]_vars

\* Sequential execution: the handlers of one session, one after the other,
\* over a store whose calls may fail.
Sequential ==
    \/ \E s \in Admins, m \in OneMember : SelectMember(s, m)
    \/ \E s \in Admins, m \in OneMember, b \in InitialBalances : SubmitAddMember(s, m, b)
    \/ \E s \in Admins, m \in OneMember, b \in InitialBalances : SubmitAddMemberGetFails(s, m, b)
    \/ \E s \in Admins : AddMemberPut(s)
    \/ \E s \in Admins : AddMemberPutFails(s)
    \/ \E s \in Admins : InitialTopUpPut(s)
    \/ \E s \in Admins : InitialTopUpPutFails(s)
    \/ \E s \in Admins, a \in Amounts : SubmitTransaction(s, a)
    \/ \E s \in Admins : AddTransactionPut(s)
    \/ \E s \in Admins : AddTransactionPutFails(s)
    \/ \E s \in Admins : UpdateBalance(s)
    \/ \E s \in Admins : UpdateBalanceFails(s)
    \/ \E s \in Admins : Return(s)

SpecSequential == InitLedger /\ [][Sequential]_vars

\* one session creates the member and edits its profile while every session
\* applies transactions to it
Editing ==
    \/ \E s \in Admins, m \in OneMember, b \in InitialBalances : SubmitAddMember(s, m, b)
    \/ \E s \in Admins : AddMemberPut(s)
    \/ \E s \in Admins : InitialTopUpPut(s)
    \/ \E s \in Admins, m \in OneMember : SubmitEdit(s, m)
    \/ \E s \in Admins : UpdateMember(s)
    \/ \E s \in Admins : UpdateMemberFails(s)

Applying ==
    \/ \E s \in Sessions, m \in OneMember : SelectMember(s, m)
    \/ \E s \in Sessions, a \in Amounts : SubmitTransaction(s, a)
    \/ \E s \in Sessions : AddTransactionPut(s)
    \/ \E s \in Sessions : UpdateBalance(s)
    \/ \E s \in Sessions : Return(s)

NextEdit == Editing \/ Applying

SpecEdit == InitLedger /\ [][NextEdit]_vars

\* The history page over a store that already holds transactions: each of
\* the MaxStored transaction ids belongs to one of the members or is not
\* used; every transaction is a top-up of 100.
StoredTransactions(owner) ==
    {TransactionItem(k, owner[k], 100, None, NoNotes) :
        k \in {j \in 1..MaxStored : owner[j] \in MemberIds}}

InitHistory ==
    \E owner \in [1..MaxStored -> MemberIds \cup {"nobody"}] :
        /\ InitApp([m \in MemberIds |->
                       [card_id |-> m,
                        balance |-> SumAmounts(get_member_transactions(
                                        StoredTransactions(owner), m))]],
                   StoredTransactions(owner), 0)
        /\ MigratorIdle(<<>>)

NextHistory ==
    \/ \E s \in Sessions, m \in MemberIds : SelectMember(s, m)
    \/ \E s \in Sessions : ViewHistory(s)
    \/ \E s \in Sessions : ViewHistoryPaged(s)
    \/ \E s \in Sessions : ViewHistoryQueryFails(s)

SpecHistory == InitHistory /\ [][NextHistory]_vars

\* The legacy table the migrator reads.  The k-th item of a scan has the
\* transaction_id LegacyTid(k) or none; its member_id is absent, empty or a
\* card number; its signature_s3_key is absent, signatures/00042/a.png,
\* signatures//a.png or a.png; its amount is absent or a Decimal.
Owner11 == <<"0", "0", "0", "1", "1">>
Owner42 == <<"0", "0", "0", "4", "2">>
Blob == <<"a", ".", "p", "n", "g">>
Conforming == Signatures \o Owner42 \o <<"/">> \o Blob
EmptySegment == Signatures \o <<"/">> \o Blob
LegacyTid(k) ==
    IF k = 1 THEN <<"a", "b", "c", "d", "e", "f", "1", "2", "-", "9">>
    ELSE <<"t">> \o str_int(k)

LegacyItem(member_id, transaction_id, amount, signature_s3_key) ==
    [member_id |-> member_id, transaction_id |-> transaction_id,
     amount |-> amount, signature_s3_key |-> signature_s3_key]

\* a debit of 50 under every shape of the owner fields
OwnerShapes(k) ==
    {LegacyItem(m, t, Some(Dec(1, <<"5", "0">>, 0)), g) :
        m \in {None, Some(<<>>), Some(Owner11)},
        t \in {None, Some(LegacyTid(k))},
        g \in {None, Some(Conforming), Some(EmptySegment), Some(Blob)}}

\* a member's item with no amount, with 0 and with 12.50
AmountShapes(k) ==
    {LegacyItem(Some(Owner11), t, a, None) :
        t \in {None, Some(LegacyTid(k))},
        a \in {None, Some(Dec(0, <<"0">>, 0)),
               Some(Dec(0, <<"1", "2", "5", "0">>, -2))}}

RECURSIVE LegacyTables(_)
LegacyTables(n) ==
    IF n = 0 THEN {<<>>}
    ELSE {Append(c, x) : c \in LegacyTables(n - 1),
                         x \in OwnerShapes(n) \cup AmountShapes(n)}

InitMigrate ==
    \E n \in 0..MaxLegacy : \E legacy \in LegacyTables(n) :
        /\ InitApp([m \in OneMember |-> [card_id |-> m, balance |-> 100]], {}, 0)
        /\ MigratorIdle(legacy)

\* the steps of a migrator run in which the store does not fail
Migrating(max_runs) ==
    \/ Scan(max_runs)
    \/ MigrateItemRaises
    \/ MigrateItem
    \/ MigrateItemRejected
    \/ Verify
    \/ NoVerification

MigratingFails(max_runs) ==
    \/ ScanFails(max_runs)
    \/ MigrateItemPutFails
    \/ VerifyFails

SpecMigrate == InitMigrate /\ [][Migrating(MaxRuns)]_vars

\* one run of the migrator over a store that may fail
SpecMigrateFaulty == InitMigrate /\ [][Migrating(1) \/ MigratingFails(1)]_vars

\* One migrator run, and then the app over the migrated table: the members
\* are the card numbers the legacy items name.
MigratedOwners == {Owner11, Owner42}

InitMigrated ==
    \E n \in 0..MaxLegacy : \E legacy \in LegacyTables(n) :
        /\ InitApp([m \in MigratedOwners |-> [card_id |-> m, balance |-> 0]], {}, 0)
        /\ MigratorIdle(legacy)

NextMigrated ==
    \/ Migrating(1)
    \/ \E s \in Admins, m \in MigratedOwners : SelectMember(s, m)
    \/ \E s \in Admins : ViewMigratedHistory(s)

SpecMigrated == InitMigrated /\ [][NextMigrated]_vars

\* ------------------------------------------------------------- properties
\* the stored transactions of a card, and their total
Ledger(m) == get_member_transactions(transactions, m)

\* the card's item was put by exactly one add_member call
CreatedOnce(m) == m \in DOMAIN members /\ Len(created[m]) = 1

\* C1: a member created with initial balance B whose apply_transaction calls
\* were reported successful with amounts a1..an has the stored balance
\* B + a1 + ... + an, in every interleaving of the sessions' store steps.
C1_NoLostIncrement ==
    \A m \in MemberIds :
        CreatedOnce(m) => members[m].balance = created[m][1] + SumSeq(applied[m])

\* C1 witness: session b put its transaction first and has not yet updated
\* the balance, while session a put later and has already finished with
\* success on the same card: the store steps of the two calls interleaved.
C1_Witness ==
    \E a \in Sessions, b \in Sessions :
        /\ a # b
        /\ pc[a] = "done" /\ op[a].kind = "apply" /\ outcome[a] = "success"
        /\ pc[b] = "tx_bal" /\ op[b].card_id = op[a].card_id
        /\ wrote[b].txn[1].transaction_id > wrote[a].txn[1].transaction_id
        /\ CreatedOnce(op[a].card_id)
        /\ created[op[a].card_id][1] # 0

\* C2 as claimed: when no handler is running, every member's balance is the
\* sum of the amounts of the stored transactions of that member.
C2_BalanceIsLedgerSum ==
    Quiescent =>
        \A m \in DOMAIN members : members[m].balance = SumAmounts(Ledger(m))

\* C2 amended: when no handler is running, the balance of every member
\* whose item was put by a single create_member call is the sum of the
\* amounts of the stored transactions of that member.
C2_BalanceIsLedgerSumCreatedOnce ==
    Quiescent =>
        \A m \in MemberIds :
            CreatedOnce(m) => members[m].balance = SumAmounts(Ledger(m))

\* C2 witness: both members exist, one with a top-up and a debit applied.
C2_Witness ==
    /\ Quiescent
    /\ \E m \in MemberIds :
        /\ CreatedOnce(m)
        /\ Cardinality(Ledger(m)) = 2
        /\ members[m].balance # 0
        /\ \E t \in Ledger(m) : t.service_notes = NoNotes

\* C3 as claimed: a finished handler that changed a balance by d put exactly
\* one transaction, of amount d (so no balance changes when the put failed).
C3_BalanceChangePaired ==
    \A s \in Sessions :
        pc[s] = "done" =>
            \A i \in 1..Len(wrote[s].bal) :
                wrote[s].bal[i] # 0 =>
                    /\ Len(wrote[s].txn) = 1
                    /\ wrote[s].txn[1].amount = wrote[s].bal[i]

\* C4: a transaction handler given amount 0 ends at once with ZeroAmount and
\* writes nothing: it never reaches a store call.
C4_ZeroAmountRejected ==
    \A s \in Sessions :
        (op[s].kind = "apply" /\ op[s].amount = 0) =>
            /\ pc[s] = "done"
            /\ outcome[s] = "ZeroAmount"
            /\ wrote[s] = NoWrites

\* C4 witness: a zero amount was submitted for a member with a balance.
C4_Witness ==
    \E s \in Sessions :
        /\ pc[s] = "done" /\ outcome[s] = "ZeroAmount"
        /\ op[s].kind = "apply" /\ op[s].amount = 0
        /\ op[s].card_id \in DOMAIN members
        /\ Ledger(op[s].card_id) # {}

\* C5 as claimed: a transaction handler for a card without an item at the
\* time of the call puts no transaction and ends with UnknownMember.
C5_UnknownMemberRejected ==
    \A s \in Sessions :
        (op[s].kind = "apply" /\ ~op[s].existed /\ op[s].amount # 0) =>
            /\ wrote[s].txn = <<>>
            /\ pc[s] = "done" => outcome[s] = "UnknownMember"

\* C6: a create_member call for a card that has an item at the time of the
\* call ends at once with DuplicateMember and writes nothing.
C6_DuplicateRejected ==
    \A s \in Sessions :
        (op[s].kind = "create" /\ op[s].existed) =>
            /\ pc[s] = "done"
            /\ outcome[s] = "DuplicateMember"
            /\ wrote[s] = NoWrites

\* C6 witness: a second create for an existing card, with another balance.
C6_Witness ==
    \E s \in Sessions :
        /\ pc[s] = "done" /\ outcome[s] = "DuplicateMember"
        /\ op[s].kind = "create"
        /\ members[op[s].card_id].balance # op[s].amount

\* C7 as claimed: once the delete handler has ended after a successful
\* delete_member, the card has no item and no stored transaction.
C7_DeleteCascades ==
    \A s \in Sessions :
        (pc[s] = "done" /\ op[s].kind = "delete" /\ outcome[s] # "DeleteFailed") =>
            /\ op[s].card_id \notin DOMAIN members
            /\ Ledger(op[s].card_id) = {}

\* C8: after create_member("M1", 100) and one apply_transaction of -30 with a
\* signature, and nothing else written for M1, the balance is 70 and M1 has
\* exactly two transactions, the top-up of 100 and the signed debit of -30.
C8_EndToEnd ==
    (Quiescent /\ created["M1"] = <<100>> /\ applied["M1"] = <<-30>>) =>
        /\ members["M1"].balance = 70
        /\ Cardinality(Ledger("M1")) = 2
        /\ \E t \in Ledger("M1") :
            t.amount = 100 /\ t.service_notes = InitialTopUp
        /\ \E t \in Ledger("M1") :
            t.amount = -30 /\ t.signature_s3_key = SignatureKey("M1")
        /\ SumAmounts(Ledger("M1")) = 70

\* C8 witness: the scenario has run.
C8_Witness ==
    /\ Quiescent
    /\ created["M1"] = <<100>>
    /\ applied["M1"] = <<-30>>
    /\ "M1" \in DOMAIN members

\* C9 as claimed: no stored transaction has amount zero.
C9_NoZeroAmount == \A t \in transactions : t.amount # 0

\* C10 as claimed: a handler that ended reporting success had no failed write.
C10_NoSilentFailure ==
    \A s \in Sessions :
        (pc[s] = "done" /\ outcome[s] = "success") => ~wrote[s].failed

\* C11: the history query returns exactly the stored transactions of the
\* member, also when the store answers in pages or the query call fails.
C11_CompleteHistory ==
    \A s \in Sessions :
        history[s] # None => history[s][1].items = history[s][1].stored

\* the processed items of the running or finished migration
Processed == 1..Len(tally)
RunDone == mpc = "done"

\* signatures/<owner_id>/<blob_name> with an owner and a blob name
FollowsConvention(key) ==
    LET parts == split(key, "/")
    IN  /\ Len(parts) = 3
        /\ parts[1] \o <<"/">> = Signatures
        /\ parts[2] # <<>>
        /\ parts[3] # <<>>

HasConformingKey(item) ==
    item.signature_s3_key # None /\ FollowsConvention(item.signature_s3_key[1])

\* the owner id by the three rules, for an item that has a transaction_id
\* or does not need rule (c)
OwnerByRule(item) ==
    IF Truthy(item.member_id) THEN item.member_id[1]
    ELSE IF HasConformingKey(item) THEN split(item.signature_s3_key[1], "/")[2]
    ELSE Unknown \o SubSeq(item.transaction_id[1], 1,
                           IF Len(item.transaction_id[1]) < 8
                           THEN Len(item.transaction_id[1]) ELSE 8)

\* C12: the owner id of every legacy item is its non-empty member_id, else
\* the owner segment of a conforming signature key, else unknown_ and the
\* first 8 characters of the transaction_id; an empty member_id and a key
\* off the convention fall through to the next rule.
C12_OwnerByRule ==
    \A k \in Processed :
        (Truthy(old_items[k].member_id) \/ HasConformingKey(old_items[k])
            \/ old_items[k].transaction_id # None)
        => tally[k].owner = Some(OwnerByRule(old_items[k]))

\* the loop made up the owner id of the k-th item from its transaction_id
Synthesized(k) ==
    /\ old_items[k].member_id = None
    /\ ~DerivesFromSignature(old_items[k])
    /\ tally[k].owner # None

\* C13: an item whose owner id was made up as unknown_<id> is recorded as
\* repaired in the final report, whose counters are migrated and errors: it
\* is not counted as a migrated item like the clean ones.
C13_SynthesizedReported ==
    RunDone => \A k \in Processed : Synthesized(k) => tally[k].counted # "migrated"

\* the item as it would be with a transaction_id
WithId(item) == [item EXCEPT !.transaction_id = Some(LegacyTid(1))]

\* C14: an item without transaction_id is written under a fresh id whichever
\* owner rule applies to it; the missing id alone (the item would be written
\* if it had one) never makes the loop skip the item.
C14_MissingIdGenerated ==
    \A k \in Processed :
        (old_items[k].transaction_id = None
            /\ AcceptsKey(NewItem(WithId(old_items[k]), 0)))
        => /\ tally[k].counted = "migrated"
           /\ \E n \in 1..uuid4s : tally[k].item[1].transaction_id = uuid4(n)

CountedAs(how) == Cardinality({k \in Processed : tally[k].counted = how})

\* C15: every scanned item is counted once, as migrated or as skipped, also
\* after malformed items and failing puts, and the printed tally has
\* migrated + skipped = total.
C15_TallyComplete ==
    /\ migrated_count = CountedAs("migrated")
    /\ errors = CountedAs("errors")
    /\ migrated_count + errors = Len(tally)
    /\ RunDone => Len(tally) = Len(old_items)

\* a put failed for an item the store would have taken, and the item after
\* it was migrated
C15_Witness ==
    /\ RunDone
    /\ \E k \in Processed :
        /\ tally[k].counted = "errors"
        /\ tally[k].owner # None
        /\ tally[k].owner[1] # <<>>
        /\ k + 1 \in Processed
        /\ tally[k + 1].counted = "migrated"

\* C16: a second run over the same legacy table leaves the keys, and so the
\* item count, of the new table as the first run left them.
C16_Idempotent ==
    (RunDone /\ runs >= 2) => {KeyOf(t) : t \in new_table} = first_keys[1]

\* what the run says about its verification: the count, when it has one
VerificationReport == IF new_count = None THEN "none" ELSE "count printed"

\* C17: a count of the new table that differs from the number of written
\* items is reported as a mismatch.
C17_MismatchDetected ==
    (RunDone /\ new_count # None /\ new_count[1] # migrated_count)
    => VerificationReport = "mismatch"

\* C18: every item of the new table has a member_id that is neither null
\* (the text None) nor empty, and a transaction_id, whatever the shapes of
\* the legacy items.
C18_KeysPresent ==
    \A t \in new_table :
        /\ t.member_id # <<>>
        /\ t.member_id # NoneStr
        /\ t.transaction_id # <<>>

\* items went into the new table while an item with an empty member_id and
\* one with an empty owner segment were turned down
C18_Witness ==
    /\ RunDone
    /\ new_table # {}
    /\ \E k \in Processed :
        /\ tally[k].counted = "errors"
        /\ \/ old_items[k].member_id = Some(<<>>)
           \/ /\ old_items[k].member_id = None
              /\ old_items[k].signature_s3_key = Some(EmptySegment)

\* the value of a Decimal in hundredths
RECURSIVE IntOf(_)
IntOf(ds) ==
    IF ds = <<>> THEN 0
    ELSE 10 * IntOf(SubSeq(ds, 1, Len(ds) - 1))
            + (CHOOSE n \in 0..9 : DigitChars[n + 1] = ds[Len(ds)])
Hundredths(d) ==
    (IF d.sign = 1 THEN -1 ELSE 1) * IntOf(d.digits)
        * (IF d.exp = 0 THEN 100 ELSE IF d.exp = -1 THEN 10 ELSE 1)

LegacyAmount(item) == IF item.amount = None THEN Dec(0, <<"0">>, 0) ELSE item.amount[1]

RECURSIVE SumLegacy(_, _)
SumLegacy(k, owner) ==
    IF k = 0 THEN 0
    ELSE SumLegacy(k - 1, owner)
            + (IF tally[k].owner = Some(owner)
               THEN Hundredths(LegacyAmount(old_items[k])) ELSE 0)

RECURSIVE SumMigrated(_)
SumMigrated(items) ==
    IF items = {} THEN 0
    ELSE LET t == CHOOSE x \in items : TRUE
         IN  Hundredths(t.amount) + SumMigrated(items \ {t})

C20_OnlyNewTableWritten ==
    [][members' = members /\ old_table' = old_table]_vars

\* a run over a legacy table wrote items while a member exists
C20_Witness ==
    /\ RunDone
    /\ migrated_count > 0
    /\ new_table # {}
    /\ old_table # <<>>
    /\ DOMAIN members # {}

\* C21: two add-member handlers for the same card can both pass the
\* existence check before either writes; then neither reports
\* DuplicateMember and the record is the one of the last writer.  Every
\* put of the handler reports success and leaves the handler's record.
C21_LastWriterWins ==
    [][\A s \in Sessions :
          (pc[s] = "cm_put" /\ pc'[s] = "cm_txn") =>
              /\ outcome'[s] = "success"
              /\ members'[op[s].card_id].balance = op[s].amount]_vars

\* both sessions passed the check while the card had no item, both wrote
\* and reported success, and the record is the one s2 has just put over
\* the one of s1
C21_Witness ==
    \E s1, s2 \in Sessions :
        /\ s1 # s2
        /\ op[s1].kind = "create" /\ op[s2].kind = "create"
        /\ op[s1].card_id = op[s2].card_id
        /\ ~op[s1].existed /\ ~op[s2].existed
        /\ wrote[s1].bal # <<>> /\ wrote[s2].bal # <<>>
        /\ outcome[s1] = "success" /\ outcome[s2] = "success"
        /\ pc[s1] = "done" /\ pc[s2] = "cm_txn"
        /\ op[s1].amount # op[s2].amount
        /\ members[op[s2].card_id].balance = op[s2].amount
        /\ created[op[s2].card_id] = <<0, 100>>

\* C22: a stored transaction is never changed; a new transaction has a
\* transaction_id that no stored one has; a stored transaction leaves the
\* table only in the cascade of a delete of its owner.
C22_AppendOnly ==
    [][/\ \A t \in transactions' \ transactions :
              \A x \in transactions : x.transaction_id # t.transaction_id
       /\ \A t \in transactions \ transactions' :
              \E s \in Sessions :
                  /\ pc[s] = "del_query"
                  /\ pc'[s] = "done"
                  /\ op[s].card_id = t.member_id]_vars

\* two transactions of a card are stored, and a delete of the card has run
\* its cascade
C22_Witness ==
    \E s \in Sessions :
        /\ pc[s] = "done"
        /\ op[s].kind = "delete"
        /\ outcome[s] # "DeleteFailed"
        /\ Cardinality(get_member_transactions(transactions, op[s].card_id)) = 2

\* C23: on the table the migrator made, the history query of an owner
\* returns every migrated transaction of that owner.
C23_MigratedHistory ==
    \A s \in Sessions :
        history[s] # None =>
            \A t \in new_table :
                t.member_id = history[s][1].member_id => t \in history[s][1].items

\* C24: the item of a card X leaves the Members table only in a step of a
\* session whose delete_confirmation flag is set and whose deleting_member
\* is X, so after "delete this member" on X and the confirm; the flag is
\* set only by that request, which deletes nothing, and a session whose
\* flag is not set (it was never set, or a cancel or a delete cleared it)
\* deletes nothing.
C24_DeleteNeedsConfirmation ==
    [][/\ \A x \in DOMAIN members \ DOMAIN members' :
              \E s \in Sessions :
                  /\ delete_confirmation[s]
                  /\ deleting_member[s] = x
                  /\ pc[s] = "idle"
                  /\ pc'[s] = "del_query"
       /\ \A s \in Sessions :
              (~delete_confirmation[s] /\ delete_confirmation'[s]) =>
                  /\ deleting_member'[s] \in DOMAIN members
                  /\ members' = members
       /\ \A s \in Sessions :
              (~delete_confirmation[s] /\ pc[s] = "idle") => pc'[s] # "del_query"]_vars

\* a confirmed delete has just removed the member recorded for deletion
C24_Witness ==
    \E s \in Sessions :
        /\ pc[s] = "del_query"
        /\ op[s].kind = "delete"
        /\ op[s].card_id = deleting_member[s]
        /\ ~delete_confirmation[s]
        /\ deleting_member[s] \notin DOMAIN members

\* C25: with one handler running at a time and store calls that may fail,
\* an add-member call for a card that has an item puts no member item (the
\* balance and created_at of the card stay), also when its existence read
\* fails.
C25_CreateNeverOverwrites ==
    \A s \in Sessions :
        (op[s].kind = "create" /\ op[s].existed) => wrote[s].bal = <<>>

\* C26: a profile edit saved with the balance it was loaded with leaves the
\* stored balance as it is, so that the increments of transactions completed
\* since the form read the member stay in the balance.
C26_EditKeepsBalance ==
    [][\A s \in Sessions :
          (pc[s] = "ed_upd" /\ pc'[s] = "done" /\ outcome'[s] = "success") =>
              members'[op[s].card_id].balance = members[op[s].card_id].balance]_vars

====
